---- MODULE Spec2Model ----
(***************************************************************************)
(* Twilio MCP server (send_message tool).                                  *)
(*                                                                         *)
(* The repository holds two variants of the server: src/server.ts and the  *)
(* variant with the configuration check and the enhanced error mapping     *)
(* (src/unnamed/part_000).  Both are modelled; the variable `variant`      *)
(* says which of the two files the running server was built from.          *)
(*                                                                         *)
(* Text is modelled in two ways.  The form body, where percent-encoding    *)
(* matters, is a sequence of one-character strings.  Messages built by     *)
(* template literals are sequences of fragments (concatenation is \o).     *)
(***************************************************************************)
EXTENDS Integers, Sequences, FiniteSets, TLC

VARIABLES
    variant,    \* which source file the server runs
    config,     \* the TwilioConfig captured by the createServer callback
    inv,        \* per send_message invocation: its position and its locals
    encPc,      \* serializer harness: "off", "input" or "encoded"
    encIn,      \* serializer harness: the `body` mapping given to twilioRequest
    encMethod,  \* serializer harness: the `method` given to twilioRequest
    encOut      \* serializer harness: formData.toString() and the fetch body

vars == <<variant, config, inv, encPc, encIn, encMethod, encOut>>

----------------------------------------------------------------------------
(* Bounds *)

MaxStrLen == 1      \* longest scalar string value drawn for the serializer
MaxListLen == 2     \* longest list value drawn for the serializer
NumInv == 2         \* number of concurrent send_message invocations

----------------------------------------------------------------------------
(* Generic helpers *)

RECURSIVE SeqsUpTo(_, _)
SeqsUpTo(S, n) ==
    IF n = 0 THEN {<<>>}
    ELSE LET shorter == SeqsUpTo(S, n - 1)
         IN  shorter \cup {Append(s, x) : s \in {t \in shorter : Len(t) = n - 1}, x \in S}

Digit(d) == CASE d = 0 -> "0" [] d = 1 -> "1" [] d = 2 -> "2" [] d = 3 -> "3"
              [] d = 4 -> "4" [] d = 5 -> "5" [] d = 6 -> "6" [] d = 7 -> "7"
              [] d = 8 -> "8" [] d = 9 -> "9"

\* String(n) for a non-negative integer n, as characters.
RECURSIVE NatToChars(_)
NatToChars(n) == IF n < 10 THEN <<Digit(n)>> ELSE Append(NatToChars(n \div 10), Digit(n % 10))

----------------------------------------------------------------------------
(* JavaScript values of the `body` mapping (Record<string, any>) *)

Undefined == [t |-> "undefined", s |-> <<>>, n |-> 0, l |-> <<>>]
Null      == [t |-> "null",      s |-> <<>>, n |-> 0, l |-> <<>>]
Str(cs)   == [t |-> "string",    s |-> cs,   n |-> 0, l |-> <<>>]
Num(k)    == [t |-> "number",    s |-> <<>>, n |-> k, l |-> <<>>]
List(xs)  == [t |-> "array",     s |-> <<>>, n |-> 0, l |-> xs]

\* String(value) as the serializer applies it to a scalar or to a list element
\* (list elements are strings here: z.array(z.string().url())).
JsString(v) ==
    CASE v.t = "string"    -> v.s
      [] v.t = "number"    -> NatToChars(v.n)
      [] v.t = "undefined" -> <<"u","n","d","e","f","i","n","e","d">>
      [] v.t = "null"      -> <<"n","u","l","l">>
      [] v.t = "array"     -> <<>>

\* Keys of sendMessageSchema used by the model, as characters.
KeyTo == <<"T","o">>
KeyMediaUrl == <<"M","e","d","i","a","U","r","l">>
\* Object.entries(body) visits the keys in insertion order.
KeyOrder == <<KeyTo, KeyMediaUrl>>

----------------------------------------------------------------------------
(* URLSearchParams: append, toString (application/x-www-form-urlencoded    *)
(* serializer) and the matching parser                                     *)

\* Characters the form serializer leaves as they are.
Unreserved == {"T","o","M","e","d","i","a","U","r","l","u","n","f",
               "0","1","2","3","4","5","6","7","8","9","*","-",".","_"}

PercentEncodeChar(c) ==
    CASE c \in Unreserved -> <<c>>
      [] c = " " -> <<"+">>
      [] c = "&" -> <<"%","2","6">>
      [] c = "=" -> <<"%","3","D">>
      [] c = "+" -> <<"%","2","B">>
      [] c = "%" -> <<"%","2","5">>
      [] c = "," -> <<"%","2","C">>
      [] c = ":" -> <<"%","3","A">>
      [] c = "/" -> <<"%","2","F">>

RECURSIVE PercentEncode(_)
PercentEncode(cs) ==
    IF cs = <<>> THEN <<>> ELSE PercentEncodeChar(Head(cs)) \o PercentEncode(Tail(cs))

\* formData.toString(): name=value pairs joined by "&".
RECURSIVE URLSearchParams_toString(_)
URLSearchParams_toString(pairs) ==
    IF pairs = <<>> THEN <<>>
    ELSE LET p == Head(pairs)
             one == PercentEncode(p[1]) \o <<"=">> \o PercentEncode(p[2])
         IN  IF Len(pairs) = 1 THEN one
             ELSE one \o <<"&">> \o URLSearchParams_toString(Tail(pairs))

PercentDecodeTriple(a, b) ==
    CASE a = "2" /\ b = "6" -> "&"
      [] a = "3" /\ b = "D" -> "="
      [] a = "2" /\ b = "B" -> "+"
      [] a = "2" /\ b = "5" -> "%"
      [] a = "2" /\ b = "C" -> ","
      [] a = "3" /\ b = "A" -> ":"
      [] a = "2" /\ b = "F" -> "/"
      [] OTHER -> "?"

RECURSIVE PercentDecode(_)
PercentDecode(cs) ==
    IF cs = <<>> THEN <<>>
    ELSE IF Head(cs) = "+" THEN <<" ">> \o PercentDecode(Tail(cs))
    ELSE IF Head(cs) = "%" /\ Len(cs) >= 3
         THEN <<PercentDecodeTriple(cs[2], cs[3])>> \o PercentDecode(SubSeq(cs, 4, Len(cs)))
    ELSE <<Head(cs)>> \o PercentDecode(Tail(cs))

\* Split a character sequence at every occurrence of sep.
RECURSIVE SplitOn(_, _)
SplitOn(cs, sep) ==
    IF \A i \in 1..Len(cs) : cs[i] # sep THEN <<cs>>
    ELSE LET i == CHOOSE k \in 1..Len(cs) : cs[k] = sep /\ \A j \in 1..(k - 1) : cs[j] # sep
         IN  <<SubSeq(cs, 1, i - 1)>> \o SplitOn(SubSeq(cs, i + 1, Len(cs)), sep)

\* One name=value field of a form body, decoded: split at the first "=".
ParseField(seg) ==
    IF \E i \in 1..Len(seg) : seg[i] = "="
    THEN LET i == CHOOSE k \in 1..Len(seg) : seg[k] = "=" /\ \A j \in 1..(k - 1) : seg[j] # "="
         IN  <<PercentDecode(SubSeq(seg, 1, i - 1)), PercentDecode(SubSeq(seg, i + 1, Len(seg)))>>
    ELSE <<PercentDecode(seg), <<>>>>

RECURSIVE ParseFields(_)
ParseFields(segs) ==
    IF segs = <<>> THEN <<>>
    ELSE IF Head(segs) = <<>> THEN ParseFields(Tail(segs))
    ELSE <<ParseField(Head(segs))>> \o ParseFields(Tail(segs))

\* The form parser a receiver of the body applies (empty fields are skipped).
FormDecode(bodyChars) == ParseFields(SplitOn(bodyChars, "&"))

\* The decoded values of the fields named key, in their order in the body.
RECURSIVE FieldValues(_, _)
FieldValues(fields, key) ==
    IF fields = <<>> THEN <<>>
    ELSE IF Head(fields)[1] = key THEN <<Head(fields)[2]>> \o FieldValues(Tail(fields), key)
    ELSE FieldValues(Tail(fields), key)

Occurrences(bodyChars, key) == Len(FieldValues(FormDecode(bodyChars), key))

----------------------------------------------------------------------------
(* twilioRequest, step 2: serialize body as application/x-www-form-urlencoded *)

\* value.forEach((v) => formData.append(key, String(v)))
RECURSIVE AppendEach(_, _)
AppendEach(key, xs) ==
    IF xs = <<>> THEN <<>> ELSE <<<<key, Head(xs)>>>> \o AppendEach(key, Tail(xs))

\* A buggy variant: the list joined into one comma-delimited field.
RECURSIVE JoinComma(_)
JoinComma(xs) ==
    IF xs = <<>> THEN <<>>
    ELSE IF Len(xs) = 1 THEN Head(xs)
    ELSE Head(xs) \o <<",">> \o JoinComma(Tail(xs))

EntryFields_joined(key, value) ==
    IF value.t \in {"undefined", "null"} THEN <<>>
    ELSE IF value.t = "array" THEN <<<<key, JoinComma(value.l)>>>>
    ELSE <<<<key, JsString(value)>>>>

\* A buggy variant: null is not skipped, String(null) is appended.
EntryFields_keepNull(key, value) ==
    IF value.t = "undefined" THEN <<>>
    ELSE IF value.t = "array" THEN AppendEach(key, value.l)
    ELSE <<<<key, JsString(value)>>>>

\* The body of the for-loop over Object.entries(body): the pairs appended
\* to formData for one entry.
EntryFields(key, value) ==
    IF value.t \in {"undefined", "null"} THEN <<>>
    ELSE IF value.t = "array" THEN AppendEach(key, value.l)
    ELSE <<<<key, JsString(value)>>>>

RECURSIVE FormPairs(_, _)
FormPairs(body, keys) ==
    IF keys = <<>> THEN <<>>
    ELSE EntryFields(Head(keys), body[Head(keys)]) \o FormPairs(body, Tail(keys))

\* requestBody = formData.toString()
RequestBody(body) == URLSearchParams_toString(FormPairs(body, KeyOrder))

\* body: method === 'POST' ? requestBody : undefined
FetchBody(method, body) ==
    IF method = "POST" THEN [sent |-> TRUE, chars |-> RequestBody(body)]
    ELSE [sent |-> FALSE, chars |-> <<>>]

----------------------------------------------------------------------------
(* Template-literal text: a sequence of fragments, empty fragments dropped *)

Text(frags) == SelectSeq(frags, LAMBDA f : f # "")

\* lines.join('\n')
RECURSIVE JoinLines(_)
JoinLines(lines) ==
    IF lines = <<>> THEN <<>>
    ELSE IF Len(lines) = 1 THEN Head(lines)
    ELSE Head(lines) \o <<"\n">> \o JoinLines(Tail(lines))

LineCount(text) == Cardinality({i \in 1..Len(text) : text[i] = "\n"}) + 1

\* A JavaScript property value read from config or from a parsed JSON body.
Absent    == [k |-> "undefined", s |-> ""]
JsNull    == [k |-> "null", s |-> ""]
Val(str)  == [k |-> "string", s |-> str]
NumVal(d) == [k |-> "number", s |-> d]

Truthy(v) == (v.k = "string" /\ v.s # "") \/ (v.k = "number" /\ v.s # "0")

\* `${v}` inside a template literal
Tmpl(v) == IF v.k \in {"string", "number"} THEN v.s ELSE v.k

----------------------------------------------------------------------------
(* Configuration (TwilioConfig) and the variants of the server *)

Variants == {"server.ts", "part_000"}

Cfg(sid, key, secret) == [present |-> TRUE, accountSid |-> sid, apiKey |-> key, apiSecret |-> secret]
NoConfig == [present |-> FALSE, accountSid |-> Absent, apiKey |-> Absent, apiSecret |-> Absent]
ValidConfig == Cfg(Val("AC1"), Val("SK1"), Val("s3cret"))

Configs ==
    { ValidConfig,
      NoConfig,
      Cfg(Val(""), Val("SK1"), Val("s3cret")),
      Cfg(Val("AC1"), Absent, Val("s3cret")),
      Cfg(Val("AC1"), Val(""), Val("s3cret")),
      Cfg(Val("AC1"), Val("SK1"), Absent),
      Cfg(Val("AC1"), Val("SK1"), Val("")) }

API_BASE_URL == "https://api.twilio.com/2010-04-01"

----------------------------------------------------------------------------
(* Provider responses: the environment of fetch *)

NoFields == [code |-> Absent, message |-> Absent, more_info |-> Absent,
             sid |-> Absent, status |-> Absent, to |-> Absent, from |-> Absent,
             error_message |-> Absent]

BodyInvalidTo   == "{code:21211, message:\"Invalid 'To' Phone Number\", more_info:\"https://...\", status:400}"
BodyMessageOnly == "{message:\"Authenticate\"}"
BodyEmptyMsg    == "{code:20003, message:\"\"}"
BodyPlainText   == "Internal Server Error"
BodyNull        == "null"
BodyQueued      == "{sid:\"SM1\", status:\"queued\", to:\"+15551234567\", from:\"+15559876543\"}"
BodyRejected    == "{sid:\"SM1\", status:\"queued\", to:\"+15551234567\", from:\"+15559876543\", error_message:\"Carrier rejected\"}"
BodyNullErrMsg  == "{sid:\"SM1\", status:\"queued\", to:\"+15551234567\", from:\"+15559876543\", error_message:null}"
BodyEmptyErrMsg == "{sid:\"SM1\", status:\"queued\", to:\"+15551234567\", from:\"+15559876543\", error_message:\"\"}"

QueuedFields == [NoFields EXCEPT !.sid = Val("SM1"), !.status = Val("queued"),
                                 !.to = Val("+15551234567"), !.from = Val("+15559876543")]

\* JSON.parse / response.json() on the body texts above.
\* kind: "object", "null" (the JSON value null) or "error" (SyntaxError).
JSONParse(text) ==
    CASE text = BodyInvalidTo ->
            [kind |-> "object",
             fields |-> [NoFields EXCEPT !.code = NumVal("21211"),
                                         !.message = Val("Invalid 'To' Phone Number"),
                                         !.more_info = Val("https://..."),
                                         !.status = NumVal("400")]]
      [] text = BodyMessageOnly ->
            [kind |-> "object", fields |-> [NoFields EXCEPT !.message = Val("Authenticate")]]
      [] text = BodyEmptyMsg ->
            [kind |-> "object",
             fields |-> [NoFields EXCEPT !.code = NumVal("20003"), !.message = Val("")]]
      [] text = BodyQueued ->
            [kind |-> "object", fields |-> QueuedFields]
      [] text = BodyRejected ->
            [kind |-> "object",
             fields |-> [QueuedFields EXCEPT !.error_message = Val("Carrier rejected")]]
      [] text = BodyNullErrMsg ->
            [kind |-> "object", fields |-> [QueuedFields EXCEPT !.error_message = JsNull]]
      [] text = BodyEmptyErrMsg ->
            [kind |-> "object", fields |-> [QueuedFields EXCEPT !.error_message = Val("")]]
      [] text = BodyNull -> [kind |-> "null", fields |-> NoFields]
      [] OTHER -> [kind |-> "error", fields |-> NoFields]

\* What the awaited fetch can settle to.  settled = "rejected": transport
\* failure.  readable = FALSE: reading the body stream fails.
Resp(ok, status, statusText, text) ==
    [settled |-> "fulfilled", ok |-> ok, status |-> status, statusText |-> statusText,
     readable |-> TRUE, text |-> text]
Rejected == [settled |-> "rejected", ok |-> FALSE, status |-> "", statusText |-> "",
             readable |-> FALSE, text |-> ""]
NoResponse == [settled |-> "pending", ok |-> FALSE, status |-> "", statusText |-> "",
               readable |-> FALSE, text |-> ""]

ErrorBodies == {BodyInvalidTo, BodyMessageOnly, BodyEmptyMsg, BodyPlainText, BodyNull}
OkBodies == {BodyQueued, BodyRejected, BodyNullErrMsg, BodyEmptyErrMsg, BodyPlainText, BodyNull}

Responses ==
    {Resp(FALSE, "400", "Bad Request", b) : b \in ErrorBodies}
    \cup {Resp(TRUE, "201", "Created", b) : b \in OkBodies}
    \cup {[Resp(FALSE, "500", "Internal Server Error", "") EXCEPT !.readable = FALSE]}

----------------------------------------------------------------------------
(* Errors thrown inside the handler's try block.  `site` records the throw *)
(* site's failure class: "config", "provider", "transport", "malformed".   *)

NoError == [thrown |-> FALSE, site |-> "none", message |-> <<>>]
Err(site, frags) == [thrown |-> TRUE, site |-> site, message |-> Text(frags)]

ConfigMissingError == Err("config", <<"Server configuration for Twilio is missing.">>)

----------------------------------------------------------------------------
(* twilioRequest up to the awaited fetch *)

\* part_000: if (!config || !config.apiKey || !config.apiSecret) throw ...
\* server.ts has no such check.
twilioRequest_configMissing(v, cfg) ==
    /\ v = "part_000"
    /\ (~cfg.present \/ ~Truthy(cfg.apiKey) \/ ~Truthy(cfg.apiSecret))

\* Buffer.from(`${config.apiKey}:${config.apiSecret}`).toString('base64'),
\* kept as the text it encodes.
authToken(cfg) == Text(<<"base64(", Tmpl(cfg.apiKey), ":", Tmpl(cfg.apiSecret), ")">>)

NoRequest == [issued |-> FALSE, url |-> <<>>, method |-> "", authorization |-> <<>>,
              contentType |-> "", accept |-> "", body |-> [sent |-> FALSE, chars |-> <<>>]]

\* A buggy variant: formData hoisted out of twilioRequest and shared, so a
\* request also carries the fields appended by the invocations before it.
fetchInit_sharedFormData(v, cfg, endpoint, method, body) ==
    LET earlier == {j \in DOMAIN inv : inv[j].pc # "idle"}
        carried == IF earlier = {} THEN <<>>
                   ELSE inv[CHOOSE j \in earlier : TRUE].request.body.chars
    IN  [issued |-> TRUE,
         url |-> Text(<<API_BASE_URL>> \o endpoint),
         method |-> method,
         authorization |-> Text(<<"Basic ">> \o authToken(cfg)),
         contentType |-> "application/x-www-form-urlencoded",
         accept |-> IF v = "part_000" THEN "application/json" ELSE "",
         body |-> [sent |-> TRUE,
                   chars |-> IF carried = <<>> \/ RequestBody(body) = <<>>
                             THEN carried \o RequestBody(body)
                             ELSE carried \o <<"&">> \o RequestBody(body)]]

\* The arguments of fetch(url, {method, headers, body}).  The Accept header
\* is sent by part_000 only.
fetchInit(v, cfg, endpoint, method, body) ==
    [issued |-> TRUE,
     url |-> Text(<<API_BASE_URL>> \o endpoint),
     method |-> method,
     authorization |-> Text(<<"Basic ">> \o authToken(cfg)),
     contentType |-> "application/x-www-form-urlencoded",
     accept |-> IF v = "part_000" THEN "application/json" ELSE "",
     body |-> FetchBody(method, body)]

\* twilioRequest from its first line to the fetch call: either it throws or
\* it issues the request.
twilioRequest_begin(v, cfg, endpoint, method, body) ==
    IF twilioRequest_configMissing(v, cfg)
    THEN [error |-> ConfigMissingError, request |-> NoRequest]
    ELSE [error |-> NoError, request |-> fetchInit(v, cfg, endpoint, method, body)]

\* The handler from its first line to the first suspension point.
\* part_000 checks config.accountSid first; in server.ts reading
\* config.accountSid of an absent config throws a TypeError.
handlerBegin(v, cfg, params) ==
    IF v = "part_000" /\ (~cfg.present \/ ~Truthy(cfg.accountSid))
    THEN [error |-> ConfigMissingError, request |-> NoRequest]
    ELSE IF v = "server.ts" /\ ~cfg.present
    THEN [error |-> Err("config", <<"Cannot read properties of undefined (reading 'accountSid')">>),
          request |-> NoRequest]
    ELSE twilioRequest_begin(v, cfg, <<"/Accounts/", Tmpl(cfg.accountSid), "/Messages.json">>,
                             "POST", params)

----------------------------------------------------------------------------
(* twilioRequest after the fetch settles *)

\* part_000: errorMessage computed from the raw error text.
twilioRequest_errorMessage(errorText) ==
    LET errorData == JSONParse(errorText)
    IN  IF errorData.kind = "object" /\ Truthy(errorData.fields.message)
        THEN Text(<<"Code ", Tmpl(errorData.fields.code), ": ", Tmpl(errorData.fields.message),
                    " (More info: ", Tmpl(errorData.fields.more_info), ")">>)
        ELSE Text(<<errorText>>)

\* server.ts: errorData.message || `Twilio API error: ${status} ${statusText}`
\* with errorData = await response.json().catch(() => ({})).
server_errorOutcome(resp) ==
    LET parsed == JSONParse(resp.text)
    IN  IF resp.readable /\ parsed.kind = "null"
        THEN Err("provider", <<"Cannot read properties of null (reading 'message')">>)
        ELSE IF resp.readable /\ parsed.kind = "object" /\ Truthy(parsed.fields.message)
        THEN Err("provider", <<Tmpl(parsed.fields.message)>>)
        ELSE Err("provider", <<"Twilio API error: ", resp.status, " ", resp.statusText>>)

\* part_000: response.text() may reject; otherwise throw new Error(errorMessage).
part_errorOutcome(resp) ==
    IF ~resp.readable THEN Err("transport", <<"terminated">>)
    ELSE Err("provider", twilioRequest_errorMessage(resp.text))

\* return (await response.json()) as T
twilioRequest_success(resp) ==
    IF ~resp.readable THEN [error |-> Err("transport", <<"terminated">>), value |-> JSONParse("")]
    ELSE IF JSONParse(resp.text).kind = "error"
    THEN [error |-> Err("malformed", <<"Unexpected token in JSON">>), value |-> JSONParse("")]
    ELSE [error |-> NoError, value |-> JSONParse(resp.text)]

\* twilioRequest from the settled fetch to its return or throw.
twilioRequest_end(v, resp) ==
    IF resp.settled = "rejected"
    THEN [error |-> Err("transport", <<"fetch failed">>), value |-> JSONParse("")]
    ELSE IF ~resp.ok
    THEN [error |-> IF v = "part_000" THEN part_errorOutcome(resp) ELSE server_errorOutcome(resp),
          value |-> JSONParse("")]
    ELSE twilioRequest_success(resp)

----------------------------------------------------------------------------
(* send_message handler: formatting *)

NoResult == [returned |-> FALSE, content |-> <<>>, hasIsError |-> FALSE, isError |-> FALSE]

\* A buggy variant: the provider's error_message turns the result into an error.
formatSuccess_flagsError(response) ==
    LET responseText == <<<<"Message sent successfully!">>,
                          Text(<<"SID: ", Tmpl(response.sid)>>),
                          Text(<<"Status: ", Tmpl(response.status)>>),
                          Text(<<"To: ", Tmpl(response.to)>>),
                          Text(<<"From: ", Tmpl(response.from)>>)>>
        pushed == IF Truthy(response.error_message)
                  THEN Append(responseText, Text(<<"Error: ", Tmpl(response.error_message)>>))
                  ELSE responseText
    IN  [returned |-> TRUE,
         content |-> <<[type |-> "text", text |-> JoinLines(pushed)]>>,
         hasIsError |-> Truthy(response.error_message),
         isError |-> Truthy(response.error_message)]

\* A buggy variant: the error line is pushed whether or not error_message is set.
formatSuccess_alwaysErrorLine(response) ==
    LET responseText == <<<<"Message sent successfully!">>,
                          Text(<<"SID: ", Tmpl(response.sid)>>),
                          Text(<<"Status: ", Tmpl(response.status)>>),
                          Text(<<"To: ", Tmpl(response.to)>>),
                          Text(<<"From: ", Tmpl(response.from)>>),
                          Text(<<"Error: ", Tmpl(response.error_message)>>)>>
    IN  [returned |-> TRUE,
         content |-> <<[type |-> "text", text |-> JoinLines(responseText)]>>,
         hasIsError |-> FALSE, isError |-> FALSE]

\* The try block after twilioRequest returned: responseText, join, return.
formatSuccess(response) ==
    LET responseText == <<<<"Message sent successfully!">>,
                          Text(<<"SID: ", Tmpl(response.sid)>>),
                          Text(<<"Status: ", Tmpl(response.status)>>),
                          Text(<<"To: ", Tmpl(response.to)>>),
                          Text(<<"From: ", Tmpl(response.from)>>)>>
        pushed == IF Truthy(response.error_message)
                  THEN Append(responseText, Text(<<"Error: ", Tmpl(response.error_message)>>))
                  ELSE responseText
    IN  [returned |-> TRUE,
         content |-> <<[type |-> "text", text |-> JoinLines(pushed)]>>,
         hasIsError |-> FALSE, isError |-> FALSE]

\* The catch block of the handler.
formatError(error) ==
    [returned |-> TRUE,
     content |-> <<[type |-> "text", text |-> Text(<<"Error sending message: ">> \o error.message)]>>,
     hasIsError |-> TRUE, isError |-> TRUE]

----------------------------------------------------------------------------
(* send_message invocations *)

Invocations == 1..NumInv

Url1 == <<"u",":","/","1">>
Url2 == <<"u",":","/","2">>

\* Schema-valid parameter sets the host passes to the handler.
ParamSets ==
    { (KeyTo :> Str(<<"+","1">>)) @@ (KeyMediaUrl :> Undefined),
      (KeyTo :> Str(<<"+","1">>)) @@ (KeyMediaUrl :> List(<<Url1, Url2>>)) }

NoParams == (KeyTo :> Undefined) @@ (KeyMediaUrl :> Undefined)

IdleInvocation ==
    [pc |-> "idle", params |-> NoParams, request |-> NoRequest, fetches |-> 0,
     response |-> NoResponse, error |-> NoError, result |-> NoResult]

\* async (params) => { try { ... await twilioRequest(...) : up to the await.
handlerStart(v, cfg, cur, params) ==
    LET b == handlerBegin(v, cfg, params)
    IN  IF b.error.thrown
        THEN [cur EXCEPT !.pc = "done", !.params = params, !.error = b.error,
                         !.result = formatError(b.error)]
        ELSE [cur EXCEPT !.pc = "fetch", !.params = params, !.request = b.request,
                         !.fetches = @ + 1]

\* A buggy variant: a failed request is issued once more before giving up.
handlerResume_retry(v, cur, resp) ==
    LET out == twilioRequest_end(v, resp)
        err == IF out.error.thrown THEN out.error
               ELSE IF out.value.kind = "null"
               THEN Err("malformed", <<"Cannot read properties of null (reading 'sid')">>)
               ELSE NoError
    IN  IF err.thrown /\ cur.fetches < 2
        THEN [cur EXCEPT !.fetches = @ + 1]
        ELSE [cur EXCEPT !.pc = "done", !.response = resp, !.error = err,
                         !.result = IF err.thrown THEN formatError(err)
                                    ELSE formatSuccess(out.value.fields)]

\* The handler from the settled fetch to its return: the rest of
\* twilioRequest, then the formatting or the catch block.  Reading
\* response.sid of a JSON null throws a TypeError inside the try block.
handlerResume(v, cur, resp) ==
    LET out == twilioRequest_end(v, resp)
        err == IF out.error.thrown THEN out.error
               ELSE IF out.value.kind = "null"
               THEN Err("malformed", <<"Cannot read properties of null (reading 'sid')">>)
               ELSE NoError
    IN  [cur EXCEPT !.pc = "done", !.response = resp, !.error = err,
                    !.result = IF err.thrown THEN formatError(err)
                               ELSE formatSuccess(out.value.fields)]

encVars == <<encPc, encIn, encMethod, encOut>>
NoEncOut == [requestBody |-> <<>>, fetchBody |-> [sent |-> FALSE, chars |-> <<>>]]

Init ==
    /\ variant \in Variants
    /\ config \in Configs
    /\ inv = [i \in Invocations |-> IdleInvocation]
    /\ encPc = "off"
    /\ encIn = NoParams
    /\ encMethod = "POST"
    /\ encOut = NoEncOut

\* The host invokes send_message with validated params.
Invoke(i, params) ==
    /\ inv[i].pc = "idle"
    /\ inv' = [inv EXCEPT ![i] = handlerStart(variant, config, inv[i], params)]
    /\ UNCHANGED <<variant, config, encVars>>

\* The awaited fetch is fulfilled with a response.
FetchFulfilled(i, resp) ==
    /\ inv[i].pc = "fetch"
    /\ inv' = [inv EXCEPT ![i] = handlerResume(variant, inv[i], resp)]
    /\ UNCHANGED <<variant, config, encVars>>

\* The awaited fetch is rejected (connection refused, timeout, DNS).
FetchRejected(i) ==
    /\ inv[i].pc = "fetch"
    /\ inv' = [inv EXCEPT ![i] = handlerResume(variant, inv[i], Rejected)]
    /\ UNCHANGED <<variant, config, encVars>>

Next ==
    \E i \in Invocations :
        \/ \E params \in ParamSets : Invoke(i, params)
        \/ \E resp \in Responses : FetchFulfilled(i, resp)
        \/ FetchRejected(i)

Spec == Init /\ [][Next]_vars

----------------------------------------------------------------------------
(* Serializer harness: twilioRequest's step 2 applied to any mapping *)

ValChars == {"a", "&", "=", " ", "+"}
ElemStrs == {<<"a">>, <<"&">>, <<"a", "=", "a">>}

EncValues ==
    {Undefined, Null}
    \cup {Str(cs) : cs \in SeqsUpTo(ValChars, MaxStrLen)}
    \cup {Num(1), Num(36000)}
    \cup {List(xs) : xs \in SeqsUpTo(ElemStrs, MaxListLen)}

Mappings == [{KeyTo, KeyMediaUrl} -> EncValues]

InitEnc ==
    /\ variant = "part_000"
    /\ config = ValidConfig
    /\ inv = [i \in Invocations |-> IdleInvocation]
    /\ encPc = "input"
    /\ encIn \in Mappings
    /\ encMethod \in {"POST", "GET"}
    /\ encOut = NoEncOut

\* formData built from Object.entries(body), then formData.toString() and
\* the body handed to fetch.
Serialize ==
    /\ encPc = "input"
    /\ encPc' = "encoded"
    /\ encOut' = [requestBody |-> RequestBody(encIn), fetchBody |-> FetchBody(encMethod, encIn)]
    /\ UNCHANGED <<variant, config, inv, encIn, encMethod>>

NextEnc == Serialize

SpecEnc == InitEnc /\ [][NextEnc]_vars

----------------------------------------------------------------------------
(* Vocabulary of the properties *)

Started(i) == inv[i].pc # "idle"
Done(i) == inv[i].pc = "done"

\* config.apiKey or config.apiSecret empty or absent
CredentialsMissing(cfg) == ~cfg.present \/ ~Truthy(cfg.apiKey) \/ ~Truthy(cfg.apiSecret)
\* any of the three credential values empty or absent
ConfigIncomplete(cfg) == CredentialsMissing(cfg) \/ ~Truthy(cfg.accountSid)

ResultText(i) == inv[i].result.content[1].text
ResultLines(i) == SplitOn(ResultText(i), "\n")

OneTextBlock(r) == r.returned /\ Len(r.content) = 1 /\ r.content[1].type = "text"

IsErrorOutcome(r) ==
    /\ OneTextBlock(r)
    /\ r.content[1].text # <<>>
    /\ Head(r.content[1].text) = "Error sending message: "
    /\ r.hasIsError /\ r.isError

IsSuccessOutcome(r) ==
    /\ OneTextBlock(r)
    /\ r.content[1].text # <<>>
    /\ Head(r.content[1].text) = "Message sent successfully!"
    /\ ~r.hasIsError

\* The response classes of an invocation whose fetch has settled.
GotResponse(i) == Done(i) /\ inv[i].response.settled = "fulfilled"
TransportFailure(i) ==
    Done(i) /\ (inv[i].response.settled = "rejected" \/ (GotResponse(i) /\ ~inv[i].response.readable))
Non2xx(i) == GotResponse(i) /\ ~inv[i].response.ok
Non2xxWithBody(i) == Non2xx(i) /\ inv[i].response.readable
Ok2xxWithBody(i) == GotResponse(i) /\ inv[i].response.ok /\ inv[i].response.readable
Malformed2xx(i) == Ok2xxWithBody(i) /\ JSONParse(inv[i].response.text).kind # "object"
MessageResource(i) == Ok2xxWithBody(i) /\ JSONParse(inv[i].response.text).kind = "object"
Parsed(i) == JSONParse(inv[i].response.text).fields

FailureOccurred(i) ==
    \/ Started(i) /\ ConfigIncomplete(config)
    \/ TransportFailure(i)
    \/ Non2xx(i)
    \/ Malformed2xx(i)

----------------------------------------------------------------------------
(* C1 *)

\* C1: whenever config.apiKey or config.apiSecret is empty or absent, an
\* invocation of send_message is rejected with a configuration error and
\* no fetch is issued by it.
C1_MissingCredentialsRejectedBeforeFetch ==
    \A i \in Invocations :
        (Started(i) /\ CredentialsMissing(config)) =>
            /\ inv[i].fetches = 0
            /\ ~inv[i].request.issued
            /\ Done(i)
            /\ inv[i].error.site = "config"
            /\ IsErrorOutcome(inv[i].result)

\* The same statement for the variant that has the configuration check.
C1_HoldsInPart000 ==
    variant = "part_000" => C1_MissingCredentialsRejectedBeforeFetch

----------------------------------------------------------------------------
(* C2 *)

\* C2: the handler never throws to the host; for every failure class
\* (missing credentials, non-2xx response, transport failure, malformed 2xx
\* body) it returns one text block starting with "Error sending message:"
\* with isError true, and isError is set only when such a failure occurred.
C2_EveryFailureIsAnErrorOutcome ==
    \A i \in Invocations :
        Done(i) =>
            /\ inv[i].result.returned
            /\ FailureOccurred(i) => IsErrorOutcome(inv[i].result)
            /\ inv[i].result.hasIsError => FailureOccurred(i)

C2_HoldsInPart000 ==
    variant = "part_000" => C2_EveryFailureIsAnErrorOutcome

\* In server.ts the failures the code itself detects are still converted.
C2_ServerDetectedFailures ==
    \A i \in Invocations :
        Done(i) =>
            /\ inv[i].result.returned
            /\ (TransportFailure(i) \/ Non2xx(i) \/ Malformed2xx(i)) => IsErrorOutcome(inv[i].result)
            /\ inv[i].result.hasIsError => FailureOccurred(i)

----------------------------------------------------------------------------
(* C3 *)

\* C3: for a non-2xx response whose body is a JSON object with a non-empty
\* message, the error raised by twilioRequest reads
\* `Code <code>: <message> (More info: <more_info>)`.
C3_ComposedErrorText ==
    \A i \in Invocations :
        (Non2xxWithBody(i)
            /\ JSONParse(inv[i].response.text).kind = "object"
            /\ Truthy(Parsed(i).message)) =>
            /\ inv[i].error.thrown
            /\ inv[i].error.message =
                  Text(<<"Code ", Tmpl(Parsed(i).code), ": ", Tmpl(Parsed(i).message),
                         " (More info: ", Tmpl(Parsed(i).more_info), ")">>)
            /\ inv[i].response.text = BodyInvalidTo =>
                  inv[i].error.message =
                      <<"Code ", "21211", ": ", "Invalid 'To' Phone Number",
                        " (More info: ", "https://...", ")">>

C3_HoldsInPart000 ==
    variant = "part_000" => C3_ComposedErrorText

----------------------------------------------------------------------------
(* C4 *)

\* C4: for a non-2xx response whose body is not JSON, the error raised by
\* twilioRequest is the raw body text, verbatim.
C4_RawErrorText ==
    \A i \in Invocations :
        (Non2xxWithBody(i) /\ JSONParse(inv[i].response.text).kind = "error") =>
            /\ inv[i].error.thrown
            /\ inv[i].error.message = Text(<<inv[i].response.text>>)

C4_HoldsInPart000 ==
    variant = "part_000" => C4_RawErrorText

----------------------------------------------------------------------------
(* C5 *)

HasSummaryFields(i) ==
    /\ MessageResource(i)
    /\ Truthy(Parsed(i).sid) /\ Truthy(Parsed(i).status)
    /\ Truthy(Parsed(i).to) /\ Truthy(Parsed(i).from)

SummaryHead(i) ==
    <<<<"Message sent successfully!">>,
      <<"SID: ", Parsed(i).sid.s>>,
      <<"Status: ", Parsed(i).status.s>>,
      <<"To: ", Parsed(i).to.s>>,
      <<"From: ", Parsed(i).from.s>>>>

NoErrorLine(i) ==
    \A k \in 1..Len(ResultLines(i)) :
        ResultLines(i)[k] = <<>> \/ Head(ResultLines(i)[k]) # "Error: "

\* C5 as stated: a 2xx message resource without error_message gives a
\* 4-line success summary with no error line.
C5_FourLineSummary ==
    \A i \in Invocations :
        (HasSummaryFields(i) /\ ~Truthy(Parsed(i).error_message)) =>
            /\ IsSuccessOutcome(inv[i].result)
            /\ Len(ResultLines(i)) = 4
            /\ NoErrorLine(i)

\* C5 (amended): a 2xx message resource without error_message gives a
\* 5-line success summary, the success line followed by the SID, Status, To
\* and From lines in that order, with no error line and isError not set.
C5_FiveLineSummary ==
    \A i \in Invocations :
        (HasSummaryFields(i) /\ ~Truthy(Parsed(i).error_message)) =>
            /\ IsSuccessOutcome(inv[i].result)
            /\ LineCount(ResultText(i)) = 5
            /\ ResultLines(i) = SummaryHead(i)
            /\ NoErrorLine(i)

C5_Witness ==
    \E i \in Invocations :
        /\ Ok2xxWithBody(i)
        /\ inv[i].response.text = BodyQueued
        /\ inv[i].result.returned
        /\ ResultLines(i)[2] = <<"SID: ", "SM1">>

----------------------------------------------------------------------------
(* C6 *)

\* C6 as stated: a 2xx message resource with error_message M gets a 5th
\* and last line `Error: M`, begins with the success line, isError not set.
C6_FifthLineError ==
    \A i \in Invocations :
        (HasSummaryFields(i) /\ Truthy(Parsed(i).error_message)) =>
            /\ IsSuccessOutcome(inv[i].result)
            /\ Len(ResultLines(i)) = 5
            /\ ResultLines(i)[Len(ResultLines(i))] = <<"Error: ", Parsed(i).error_message.s>>

\* C6 (amended): a 2xx message resource with a non-empty error_message M
\* gets a 6th and last line `Error: M` after the five summary lines; the
\* text begins with the success line and isError is not set.
C6_SixthLineError ==
    \A i \in Invocations :
        (HasSummaryFields(i) /\ Truthy(Parsed(i).error_message)) =>
            /\ IsSuccessOutcome(inv[i].result)
            /\ ~inv[i].result.isError
            /\ LineCount(ResultText(i)) = 6
            /\ ResultLines(i) =
                  Append(SummaryHead(i), <<"Error: ", Parsed(i).error_message.s>>)

C6_Witness ==
    \E i \in Invocations :
        /\ Ok2xxWithBody(i)
        /\ inv[i].response.text = BodyRejected
        /\ inv[i].result.returned
        /\ ResultLines(i)[6] = <<"Error: ", "Carrier rejected">>

----------------------------------------------------------------------------
(* C7, C8: the serializer *)

Encoded == encPc = "encoded"

\* The form body twilioRequest built (for POST, the body handed to fetch).
BuiltBody == IF encMethod = "POST" THEN encOut.fetchBody.chars ELSE encOut.requestBody

\* C7: a list-valued field with N elements (N >= 0) gives exactly N fields
\* under that key, one per element in the list's order.
C7_OneFieldPerListElement ==
    Encoded =>
        \A key \in DOMAIN encIn :
            encIn[key].t = "array" =>
                /\ Occurrences(encOut.requestBody, key) = Len(encIn[key].l)
                /\ FieldValues(FormDecode(encOut.requestBody), key) = encIn[key].l
                /\ encMethod = "POST" => encOut.fetchBody.sent /\ BuiltBody = encOut.requestBody

C7_Witness ==
    /\ Encoded
    /\ encMethod = "POST"
    /\ encIn[KeyMediaUrl].t = "array"
    /\ Len(encIn[KeyMediaUrl].l) = 2
    /\ encIn[KeyTo].t = "string"
    /\ Occurrences(BuiltBody, KeyMediaUrl) = 2

\* C8: a key whose value is null or undefined has no field in the body; a
\* key with a non-null scalar value has exactly one.
C8_NullOmittedScalarOnce ==
    Encoded =>
        \A key \in DOMAIN encIn :
            /\ encIn[key].t \in {"undefined", "null"} =>
                  Occurrences(encOut.requestBody, key) = 0
            /\ encIn[key].t \in {"string", "number"} =>
                  /\ Occurrences(encOut.requestBody, key) = 1
                  /\ FieldValues(FormDecode(encOut.requestBody), key) = <<JsString(encIn[key])>>

C8_Witness ==
    /\ Encoded
    /\ encIn[KeyTo].t = "null"
    /\ encIn[KeyMediaUrl].t = "number"
    /\ Occurrences(encOut.requestBody, KeyTo) = 0
    /\ Occurrences(encOut.requestBody, KeyMediaUrl) = 1

----------------------------------------------------------------------------
(* C9 *)

RequestFailed(i) == TransportFailure(i) \/ Non2xx(i) \/ Malformed2xx(i)

C9_AtMostOneRequest ==
    \A i \in Invocations :
        /\ inv[i].fetches <= 1
        /\ inv[i].pc = "fetch" => inv[i].fetches = 1
        /\ Done(i) =>
              /\ IsErrorOutcome(inv[i].result) \/ IsSuccessOutcome(inv[i].result)
              /\ ~(IsErrorOutcome(inv[i].result) /\ IsSuccessOutcome(inv[i].result))
              /\ RequestFailed(i) =>
                    /\ IsErrorOutcome(inv[i].result)
                    /\ inv[i].error.thrown
                    /\ ResultText(i) = <<"Error sending message: ">> \o inv[i].error.message

C9_Terminal ==
    \A i \in Invocations :
        /\ inv'[i].fetches >= inv[i].fetches
        /\ Done(i) => inv'[i] = inv[i]
        /\ (inv[i].pc = "fetch" /\ inv'[i] # inv[i]) => inv'[i].pc = "done"

\* C9: an invocation issues at most one HTTP request and ends in exactly
\* one of the two outcomes; once it has ended nothing of it changes (no
\* retry), and a failed request is what the caller receives.
C9_SinglePassNoRetry == []C9_AtMostOneRequest /\ [][C9_Terminal]_vars

C9_Witness ==
    \E i \in Invocations :
        /\ Done(i)
        /\ inv[i].fetches = 1
        /\ inv[i].response.settled = "rejected"
        /\ IsErrorOutcome(inv[i].result)

----------------------------------------------------------------------------
(* C10 *)

ListOf(v) == IF v.t = "array" THEN v.l ELSE <<>>

\* The request of a started invocation carries its own parameters and the
\* credentials, and equal inputs give equal requests and outcomes.
C10_OwnInputsOnly ==
    \A i \in Invocations :
        /\ inv[i].request.issued =>
              /\ FieldValues(FormDecode(inv[i].request.body.chars), KeyMediaUrl)
                    = ListOf(inv[i].params[KeyMediaUrl])
              /\ FieldValues(FormDecode(inv[i].request.body.chars), KeyTo)
                    = <<JsString(inv[i].params[KeyTo])>>
              /\ inv[i].request.url =
                    Text(<<API_BASE_URL, "/Accounts/", Tmpl(config.accountSid), "/Messages.json">>)
              /\ inv[i].request.authorization =
                    Text(<<"Basic ", "base64(", Tmpl(config.apiKey), ":", Tmpl(config.apiSecret), ")">>)
        /\ \A j \in Invocations :
              /\ (Started(i) /\ Started(j) /\ inv[i].params = inv[j].params) =>
                    inv[i].request = inv[j].request
              /\ (Done(i) /\ Done(j) /\ inv[i].params = inv[j].params
                    /\ inv[i].response = inv[j].response) =>
                    inv[i].result = inv[j].result /\ inv[i].error = inv[j].error

\* A step belongs to one invocation and leaves the credentials alone.
C10_StepLocal ==
    /\ config' = config
    /\ variant' = variant
    /\ \A i, j \in Invocations : (i # j /\ inv'[i] # inv[i]) => inv'[j] = inv[j]

\* C10: concurrently running invocations do not interfere: each one's
\* request and outcome depend only on its own parameters, its own response
\* and the credentials, which are never modified.
C10_Independent == []C10_OwnInputsOnly /\ [][C10_StepLocal]_vars

C10_Witness ==
    \E i, j \in Invocations :
        /\ i # j
        /\ inv[i].pc = "fetch"
        /\ Done(j) /\ inv[j].fetches = 1
        /\ inv[i].params # inv[j].params

====
